---------------------------- MODULE Spec2Model ----------------------------
(***************************************************************************)
(* State-machine model of the playback controller of thiiz/zihtv:          *)
(* src/src/components/CustomVideoPlayer.tsx (default export, the player    *)
(* mounted by src/src/app/@player/player/[type]/[id]/page.tsx).            *)
(*                                                                         *)
(* One action is one event-loop task: an event handler, the render it      *)
(* schedules and the passive effects of that render.  React gives state    *)
(* set inside click, input, mouseup, keydown, play, pause and volumechange *)
(* listeners discrete priority: the render and its effects are flushed     *)
(* before the task ends, so the effects are part of the action (operator   *)
(* Commit).  The other listeners (timeupdate, loadedmetadata, ended, the   *)
(* engine's events, the timeout) are modelled the same way.                *)
(*                                                                         *)
(* src/src/components/ActorGallery.tsx carries an earlier player (named    *)
(* export CustomVideoPlayer) that no page of this tree imports; of it the  *)
(* model keeps only the engine configuration, LegacyHlsConfig.             *)
(*                                                                         *)
(* A closure is modelled by the values it captured when its effect last    *)
(* ran: kd is what the document keydown handler sees of duration and       *)
(* isPlaying (its effect re-runs only on currentTime, volume and           *)
(* isFullscreen), timer.cap is the isPlaying the hide-timer callback sees. *)
(*                                                                         *)
(* Not modelled: isBuffering, bufferedTime, playbackRate, quality,         *)
(* showSettings, showInfo, showSubtitles.  No handler or effect reads      *)
(* them; they only select what is drawn.                                   *)
(*                                                                         *)
(* Times are whole seconds, volumes are tenths (8 is 0.8).                 *)
(***************************************************************************)
EXTENDS Integers, Sequences, FiniteSets, TLC

\* ------------------------------------------------------------ bounds ----
\* Longest media duration, in seconds.
MaxDur == 12
\* Duration of the short media, in seconds.
ShortDur == 4
\* Engine instances that may exist at the same time.
MaxEngines == 2
\* Events waiting in the media element's task queue.
MaxQueue == 2
\* Stream changes the hosting page makes during one mount.
MaxStreams == 1
\* Fatal engine faults counted per session.
MaxFaults == 2
\* Profiles the user can create.
MaxProfiles == 3

\* ------------------------------------------------- program constants ----
\* setTimeout(..., 3000): the inactivity window, in seconds.
HideDelay == 3
\* seek(currentTime +/- 10)
SeekStep == 10
\* useState(0.8), in tenths
InitVolume == 8
\* changeVolume(volume +/- 0.1), in tenths
VolumeStep == 1
\* Math.min(1, ...), in tenths
MaxVolume == 10
\* max={duration || 100}: the scrubber's range while duration is unknown
ScrubMaxUnknown == 100

Min(a, b) == IF a < b THEN a ELSE b
Max(a, b) == IF a > b THEN a ELSE b

\* ------------------------------------------------------------ inputs ----
\* Stream URLs the page hands to the player: two manifests and a file.
Urls == {"a.m3u8", "b.m3u8", "c.mp4"}
StreamTypes == {"live", "movie", "episode"}
\* video.duration at loadedmetadata.
\* The length of the media behind each address: a property of the stream.
MediaDuration(url) == IF url = "a.m3u8" THEN MaxDur ELSE ShortDur
Keys == {" ", "k", "m", "f", "ArrowLeft", "ArrowRight", "ArrowUp", "ArrowDown", "Escape"}
ErrorKinds == {"networkError", "mediaError", "otherError"}

\* streamUrl.endsWith('.m3u8')
IsM3u8(url) == url \in {"a.m3u8", "b.m3u8"}

VARIABLES
  \* lifecycle and props
  mounted, streamUrl, streamType, hasNext,
  \* platform: Hls.isSupported(), video.canPlayType('application/vnd.apple.mpegurl')
  hlsSupported, nativeHls,
  \* React state
  isPlaying, currentTime, duration, volume, isMuted, isFullscreen,
  showControls, error, isDragging, autoPlayNext,
  \* the <video> element: [src, paused, time, duration, volume, muted]
  el,
  \* tasks queued on the media element event task source
  evq,
  \* hlsRef.current (0 is null), the engine instances not destroyed, the
  \* configuration the referenced engine was created with, and whether its
  \* MANIFEST_PARSED is still to come
  hlsRef, hlsAlive, hlsCfg, manifestPending,
  \* the attach effect's listeners are on the element (its cleanup is registered)
  attachActive,
  \* the controls effect's listeners are on the container
  ctlActive,
  \* the document keydown / fullscreenchange listeners are registered
  docActive,
  \* values captured by the registered keydown handler
  kd,
  \* controlsTimeoutRef: [left: -1 when no timer is pending, cap: isPlaying captured]
  timer,
  \* document.fullscreenElement is set
  docFullscreen,
  \* history: the last step taken (its name, whether it called video.play(),
  \* the time it asked for and the isPlaying it started from), seconds since
  \* the hide timer was armed and since the last activity, whether the last
  \* ended handler logged the auto-advance, fatal engine faults of the
  \* session, stream changes, the double toggle of mute under observation,
  \* whether the last step ran the attach effect's cleanup
  last, sinceArmed, idle, advanceSignal, faults, streams, tm, torn,
  \* the player page: the route parameters [type, id]; profile ("closed",
  \* "loading", "loaded" or "none"); its React state loading, error ("none", "noProfile",
  \* "profile" or "api") and streamUrl ("" is null or undefined); the route whose
  \* response set streamUrl, streamInfo and episodeData (each an empty or
  \* one-element sequence); the routes whose request is not answered yet;
  \* history: the page's last step
  pgRoute, pgProfile, pgLoading, pgError, pgStreamUrl,
  pgUrlOf, pgInfoOf, pgEpisodeOf, pgInflight, pgLast,
  \* IndexedDB: the keys of the profiles store, the id of the record in the
  \* selectedProfile store (0: none), the profile ids with cached categories
  \* or streams; history: the last operation
  dbProfiles, dbSelected, dbCache, dbLast

PlayerVars == <<mounted, streamUrl, streamType, hasNext, hlsSupported, nativeHls,
                isPlaying, currentTime, duration, volume, isMuted, isFullscreen,
                showControls, error, isDragging, autoPlayNext, el, evq,
                hlsRef, hlsAlive, hlsCfg, manifestPending, attachActive, ctlActive,
                docActive, kd, timer, docFullscreen,
                last, sinceArmed, idle, advanceSignal, faults, streams, tm, torn>>

PageVars == <<pgRoute, pgProfile, pgLoading, pgError, pgStreamUrl,
              pgUrlOf, pgInfoOf, pgEpisodeOf, pgInflight, pgLast>>

StoreVars == <<dbProfiles, dbSelected, dbCache, dbLast>>

vars == <<PlayerVars, PageVars, StoreVars>>

\* The stream the resolver knows under each stream id, and back.
StreamOf(id) == CASE id = 1 -> "a.m3u8" [] id = 2 -> "b.m3u8" [] OTHER -> "c.mp4"

IdOf(url) == CHOOSE id \in 1..Cardinality(Urls) : StreamOf(id) = url

\* The page state in which the player is shown with these props: profile
\* loaded, the route's request answered with success and this streamUrl.
PageShowing(url, type, next) ==
  LET route == [type |-> type, id |-> IdOf(url)]
  IN [route |-> route, url |-> url, of |-> <<route>>,
      episodeOf |-> IF next THEN <<[type |-> "episode", id |-> route.id]>> ELSE <<>>,
      last |-> [op |-> "response", route |-> route, outcome |-> "ok"]]


\* --------------------------------------------------- the media element ----
\* A dom value is the element together with its queued event tasks.
NoSource == ""

\* A fresh <video>: no source, paused, position 0, duration unknown (0),
\* full volume, not muted.
FreshEl == [src |-> NoSource, paused |-> TRUE, time |-> 0, duration |-> 0,
            volume |-> MaxVolume, muted |-> FALSE]

\* video.play(): a paused element starts and queues "play"; a call the
\* platform rejects (autoplay policy) leaves it paused.
PlayD(d, allowed) ==
  IF d.el.paused /\ allowed
    THEN [el |-> [d.el EXCEPT !.paused = FALSE], q |-> Append(d.q, "play")]
    ELSE d

\* video.pause()
PauseD(d) ==
  IF ~d.el.paused
    THEN [el |-> [d.el EXCEPT !.paused = TRUE], q |-> Append(d.q, "pause")]
    ELSE d

\* video.currentTime = t: the element keeps the position inside its own
\* range once it has metadata; before that it remembers t as start position.
SeekD(d, t) ==
  [d EXCEPT !.el.time = IF d.el.duration = 0 THEN Max(0, t)
                        ELSE Max(0, Min(t, d.el.duration))]

\* An element that changes its volume without telling anyone.
SetVolumeDSilent(d, v) == [d EXCEPT !.el.volume = v]

\* video.volume = v: "volumechange" is queued when the value changes.
SetVolumeD(d, v) ==
  IF d.el.volume # v
    THEN [el |-> [d.el EXCEPT !.volume = v], q |-> Append(d.q, "volumechange")]
    ELSE d

\* video.muted = m
SetMutedD(d, m) ==
  IF d.el.muted # m
    THEN [el |-> [d.el EXCEPT !.muted = m], q |-> Append(d.q, "volumechange")]
    ELSE d

\* The element's load algorithm, run by video.src = ... and by the engine's
\* attach and destroy: playback stops without a "pause" event, the position
\* and duration are reset and the queued event tasks are removed.
LoadD(d, src) ==
  [el |-> [d.el EXCEPT !.src = src, !.paused = TRUE, !.time = 0, !.duration = 0],
   q |-> <<>>]

\* ------------------------------------------------------- attach effect ----
\* new Hls(): the engine is created without a configuration object, whatever
\* the stream type.
HlsConfig(type) == [lowLatencyMode |-> "default", backBufferLength |-> "default"]

NoConfig == [lowLatencyMode |-> "none", backBufferLength |-> "none"]

\* The configuration object the earlier player passed to new Hls():
\* lowLatencyMode for live streams, backBufferLength 30 for live and 60
\* otherwise.
LegacyHlsConfig(type) ==
  [lowLatencyMode |-> IF type = "live" THEN "on" ELSE "off",
   backBufferLength |-> IF type = "live" THEN "short" ELSE "long"]

\* A source selection that never asks the element whether it can play the
\* manifest type.
AttachPathAssumesNative(url) ==
  IF IsM3u8(url) /\ hlsSupported THEN "engine" ELSE "native"

\* The branch the attach effect takes for a URL on this platform.
AttachPath(url) ==
  IF IsM3u8(url)
    THEN IF hlsSupported THEN "engine"
         ELSE IF nativeHls THEN "native"
         ELSE "unsupported"
    ELSE "native"

\* The smallest engine identity not in use.
FreshEngine(alive) ==
  IF \E i \in 1..MaxEngines : i \notin alive
    THEN CHOOSE i \in 1..MaxEngines : i \notin alive /\ \A j \in 1..(i-1) : j \in alive
    ELSE 0

\* Body of the attach effect on a mounted <video>: set volume, muted, then
\* select the source.  Returns the dom, hlsRef, the live engines, the engine
\* configuration, the error it sets and whether a manifest is being loaded.
AttachBody(d, url, type, vol, muted, ref, alive) ==
  LET d1 == SetMutedD(SetVolumeD(d, vol), muted)
      path == AttachPath(url)
      id == FreshEngine(alive)
  IN CASE path = "engine" ->
            [d |-> LoadD(d1, "mse"), ref |-> id, alive |-> alive \cup {id},
             cfg |-> HlsConfig(type), err |-> "none", mp |-> TRUE]
       [] path = "native" ->
            [d |-> LoadD(d1, url), ref |-> ref, alive |-> alive,
             cfg |-> NoConfig, err |-> "none", mp |-> FALSE]
       [] OTHER ->
            [d |-> d1, ref |-> ref, alive |-> alive,
             cfg |-> NoConfig, err |-> "unsupported", mp |-> FALSE]

\* An attach-effect cleanup that clears the ref and the source but leaves the
\* engine running.
AttachCleanupKeepsEngine(d, ref, alive) ==
  [d |-> LoadD(d, NoSource), ref |-> 0, alive |-> alive]

\* Cleanup of the attach effect: destroy the referenced engine, clear the
\* ref, remove the listeners, video.src = ''.
AttachCleanup(d, ref, alive) ==
  [d |-> LoadD(d, NoSource), ref |-> 0,
   alive |-> IF ref # 0 THEN alive \ {ref} ELSE alive]


\* --------------------------------------------------------- render/commit ----
NoTimer == [left |-> -1, cap |-> FALSE]

\* A controls-effect cleanup that leaves the pending timeout alone.
ControlsCleanupKeepsTimer(t) == t

\* Cleanup of the controls effect: clearTimeout(controlsTimeoutRef.current).
ControlsCleanup(t) == NoTimer

\* What a handler leaves behind before React renders: the dom after its own
\* calls on the element, the error it set, the hide timer, the pending
\* manifest and the session's fault count.
H0 == [d |-> [el |-> el, q |-> evq], err |-> error, timer |-> timer,
       mp |-> manifestPending, faults |-> faults]

\* Dependency lists of the three effects that can re-run.
AttachDepsChanged ==
  \/ streamUrl' # streamUrl
  \/ isDragging' # isDragging       \* through updateProgress
  \/ streamType' # streamType
  \/ hasNext' # hasNext             \* episodeData
  \/ autoPlayNext' # autoPlayNext

ControlsDepsChanged == isPlaying' # isPlaying

KeyboardDepsChanged ==
  \/ currentTime' # currentTime
  \/ volume' # volume
  \/ isFullscreen' # isFullscreen

\* The render after a handler and its effects, in React's order: cleanups of
\* the effects whose dependencies changed (all of them on unmount), then the
\* effect bodies.  The React state other than error is primed by the caller.
Commit(h0) ==
  \E h \in {h0} :
  \E vid \in {mounted' /\ h.err = "none"} :              \* videoRef.current, container
  \E depsA \in {AttachDepsChanged} :
  \E cleanA \in {attachActive /\ (depsA \/ ~mounted')} :
  \E c \in {IF cleanA THEN AttachCleanup(h.d, hlsRef, hlsAlive)
            ELSE [d |-> h.d, ref |-> hlsRef, alive |-> hlsAlive]} :
  \E d3 \in {IF vid /\ volume' # volume THEN SetVolumeD(c.d, volume') ELSE c.d} :
  \E d4 \in {IF vid /\ isMuted' # isMuted THEN SetMutedD(d3, isMuted') ELSE d3} :
  \E bodyA \in {mounted' /\ depsA /\ vid} :
  \E a \in {IF bodyA
              THEN AttachBody(d4, streamUrl', streamType', volume', isMuted', c.ref, c.alive)
              ELSE [d |-> d4, ref |-> c.ref, alive |-> c.alive,
                    cfg |-> IF cleanA THEN NoConfig ELSE hlsCfg,
                    err |-> h.err, mp |-> IF cleanA THEN FALSE ELSE h.mp]} :
  \E cleanC \in {ctlActive /\ (ControlsDepsChanged \/ ~mounted')} :
     /\ bodyA /\ AttachPath(streamUrl') = "engine" => a.ref # 0
     /\ Len(a.d.q) <= MaxQueue
     /\ el' = a.d.el
     /\ evq' = a.d.q
     /\ hlsRef' = a.ref
     /\ hlsAlive' = a.alive
     /\ hlsCfg' = a.cfg
     /\ manifestPending' = a.mp
     /\ error' = a.err
     /\ faults' = IF bodyA THEN 0 ELSE h.faults
     /\ attachActive' = IF ~mounted' THEN FALSE
                        ELSE IF depsA THEN vid ELSE attachActive
     /\ ctlActive' = IF ~mounted' THEN FALSE
                     ELSE IF ControlsDepsChanged THEN vid ELSE ctlActive
     /\ timer' = IF cleanC THEN ControlsCleanup(h.timer) ELSE h.timer
     /\ kd' = IF mounted' /\ KeyboardDepsChanged
                THEN [duration |-> duration', isPlaying |-> isPlaying']
                ELSE kd
     /\ docActive' = mounted'
     /\ torn' = cleanA

\* ------------------------------------------------------------------ Init ----
\* The state after the first render and its effects.
Init ==
  /\ mounted = TRUE
  /\ streamUrl \in Urls
  /\ streamType \in StreamTypes
  /\ hasNext \in BOOLEAN
  /\ hlsSupported \in BOOLEAN
  /\ nativeHls \in BOOLEAN
  /\ isPlaying = FALSE
  /\ currentTime = 0
  /\ duration = 0
  /\ volume = InitVolume
  /\ isMuted = FALSE
  /\ isFullscreen = FALSE
  /\ showControls = TRUE
  /\ isDragging = FALSE
  /\ autoPlayNext = TRUE
  /\ LET a == AttachBody([el |-> FreshEl, q |-> <<>>], streamUrl, streamType,
                         InitVolume, FALSE, 0, {})
     IN /\ el = a.d.el
        /\ evq = a.d.q
        /\ hlsRef = a.ref
        /\ hlsAlive = a.alive
        /\ hlsCfg = a.cfg
        /\ manifestPending = a.mp
        /\ error = a.err
  /\ attachActive = TRUE
  /\ ctlActive = TRUE
  /\ docActive = TRUE
  /\ kd = [duration |-> 0, isPlaying |-> FALSE]
  /\ timer = NoTimer
  /\ docFullscreen = FALSE
  /\ last = [op |-> "mount", play |-> FALSE, arg |-> -1, was |-> FALSE,
             req |-> <<>>, wrote |-> <<>>, rej |-> FALSE]
  /\ torn = FALSE
  /\ sinceArmed = 0
  /\ idle = 0
  /\ advanceSignal = FALSE
  /\ faults = 0
  /\ streams = 0
  /\ tm = [n |-> 0, el |-> FALSE, st |-> FALSE]
  /\ LET pg == PageShowing(streamUrl, streamType, hasNext)
     IN /\ pgRoute = pg.route
        /\ pgStreamUrl = pg.url
        /\ pgUrlOf = pg.of
        /\ pgInfoOf = pg.of
        /\ pgEpisodeOf = pg.episodeOf
        /\ pgLast = pg.last
  /\ pgProfile = "loaded"
  /\ pgLoading = FALSE
  /\ pgError = "none"
  /\ pgInflight = {}
  /\ dbProfiles = {1}
  /\ dbSelected = 1
  /\ dbCache = {}
  /\ dbLast = [op |-> "setSelectedProfile", id |-> 1]


\* ------------------------------------------------------------- helpers ----
\* The React state a handler starts from, and its assignment after the handler.
R0 == [isPlaying |-> isPlaying, currentTime |-> currentTime, duration |-> duration,
       volume |-> volume, isMuted |-> isMuted, isFullscreen |-> isFullscreen,
       showControls |-> showControls, isDragging |-> isDragging,
       autoPlayNext |-> autoPlayNext]

SetReact(r) ==
  /\ isPlaying' = r.isPlaying
  /\ currentTime' = r.currentTime
  /\ duration' = r.duration
  /\ volume' = r.volume
  /\ isMuted' = r.isMuted
  /\ isFullscreen' = r.isFullscreen
  /\ showControls' = r.showControls
  /\ isDragging' = r.isDragging
  /\ autoPlayNext' = r.autoPlayNext

\* Nothing the hosting page, the platform or the database decides changes.
SameHost ==
  /\ UNCHANGED <<mounted, streamUrl, streamType, hasNext, hlsSupported, nativeHls>>
  /\ UNCHANGED <<PageVars, StoreVars>>

\* The record of a step: its name, whether it called play() and whether that
\* call was rejected, the time it asked for when that lay in [0, duration]
\* (arg), the time it passed to seek (req) and the position it wrote to the
\* element (wrote), each an empty or one-element sequence, and the isPlaying
\* it started from (was).
HistSeek(name, play, arg, was, req, wrote, rej) ==
  last' = [op |-> name, play |-> play, arg |-> arg, was |-> was,
           req |-> req, wrote |-> wrote, rej |-> rej]

HistArg(name, play, arg, was) == HistSeek(name, play, arg, was, <<>>, <<>>, FALSE)

Hist(name, play) == HistArg(name, play, -1, FALSE)

\* A qualifying activity (pointer move or enter, click, key press) restarts
\* the idle clock.
Activity == idle' = 0

\* The player branch is rendered: videoRef.current and the container exist.
Rendered == mounted /\ error = "none"

\* Outcomes of a play() call: the platform may reject it (autoplay policy).
PlayOutcomes == IF el.paused THEN BOOLEAN ELSE {TRUE}

\* ------------------------------------------------------ control functions ----
\* togglePlayPause as created in a render whose isPlaying was playing.
togglePlayPause(d, playing, allowed) ==
  IF playing THEN PauseD(d) ELSE PlayD(d, allowed)

\* A toggleMute that negates the tracked isMuted instead of the element flag.
toggleMuteFromState(d) == SetMutedD(d, ~isMuted)

\* toggleMute: video.muted = !video.muted
toggleMute(d) == SetMutedD(d, ~d.el.muted)

\* A changeVolume that writes its argument as it comes.
changeVolumeUnclamped(d, newVolume) == SetVolumeD(d, newVolume)

\* changeVolume: video.volume = Math.max(0, Math.min(1, newVolume))
changeVolume(d, newVolume) == SetVolumeD(d, Max(0, Min(MaxVolume, newVolume)))

\* seek as created in a render whose duration was dur and isPlaying was
\* wasPlaying: the clamped time, and the dom after the write and the resume.
seek(d, time, dur, wasPlaying, allowed) ==
  LET clampedTime == Max(0, Min(dur, time))
      d1 == SeekD(d, clampedTime)
  IN [time |-> clampedTime,
      d |-> IF wasPlaying THEN PlayD(d1, allowed) ELSE d1]

\* A timeupdate listener without the isDragging test.
updateProgressUnguarded(d, dragging, shown) == d.el.time

\* updateProgress, the timeupdate listener: the value it gives currentTime.
updateProgress(d, dragging, shown) ==
  IF ~dragging THEN d.el.time ELSE shown

\* An episode branch that does not look at nextEpisodeId.
AutoAdvanceIgnoresNext(type, next, auto) == type = "episode" /\ auto

\* handleEnded's episode branch: whether the auto-advance is logged.
AutoAdvance(type, next, auto) == type = "episode" /\ next /\ auto

\* One more double-toggle observed: n counts the toggleMute calls since a
\* quiescent start, el and st are the muted flags at that start.
TmToggle ==
  tm' = IF tm.n = 0 /\ evq = <<>>
          THEN [n |-> 1, el |-> el.muted, st |-> isMuted]
        ELSE IF tm.n = 1 THEN [tm EXCEPT !.n = 2]
        ELSE [n |-> 0, el |-> FALSE, st |-> FALSE]


\* ---------------------------------------------------------- user actions ----
\* onClick of the <video>, the centre button and the control-bar button: the
\* togglePlayPause of the current render.
ClickPlayPause ==
  /\ SameHost
  /\ Rendered
  /\ \E allowed \in PlayOutcomes :
       /\ SetReact(R0)
       /\ Commit([H0 EXCEPT !.d = togglePlayPause(H0.d, isPlaying, allowed)])
       /\ HistSeek("clickPlayPause", ~isPlaying, -1, FALSE, <<>>, <<>>,
                   ~isPlaying /\ ~allowed)
  /\ Activity
  /\ UNCHANGED <<docFullscreen, sinceArmed, advanceSignal, streams, tm>>

\* onClick of the mute button.
ClickMute ==
  /\ SameHost
  /\ Rendered
  /\ SetReact(R0)
  /\ Commit([H0 EXCEPT !.d = toggleMute(H0.d)])
  /\ Hist("toggleMute", FALSE)
  /\ TmToggle
  /\ Activity
  /\ UNCHANGED <<docFullscreen, sinceArmed, advanceSignal, streams>>

\* onChange of the volume slider (min 0, max 1).
SlideVolume(v) ==
  /\ SameHost
  /\ Rendered
  /\ SetReact(R0)
  /\ Commit([H0 EXCEPT !.d = changeVolume(H0.d, v)])
  /\ HistSeek("slideVolume", FALSE, -1, FALSE, <<v>>, <<>>, FALSE)
  /\ Activity
  /\ UNCHANGED <<docFullscreen, sinceArmed, advanceSignal, streams, tm>>

\* max={duration || 100}
ScrubMax == IF duration # 0 THEN duration ELSE ScrubMaxUnknown

\* onChange of the scrubber: setIsDragging(true), setCurrentTime(time),
\* video.currentTime = time.
ScrubInput(name, time) ==
  /\ SameHost
  /\ Rendered
  /\ time <= ScrubMax
  /\ SetReact([R0 EXCEPT !.isDragging = TRUE, !.currentTime = time])
  /\ Commit([H0 EXCEPT !.d = SeekD(H0.d, time)])
  /\ HistSeek(name, FALSE, time, isPlaying, <<>>, <<time>>, FALSE)
  /\ Activity
  /\ UNCHANGED <<docFullscreen, sinceArmed, advanceSignal, streams, tm>>

\* The scrubber's value changes under the pointer (press, drag or touch).
ScrubChange(time) == ScrubInput("scrubChange", time)

\* The focused scrubber's value changes by one step from the keyboard: the
\* same onChange, with no pointer and so no mouseup or touchend to follow.
ScrubKey(up) ==
  LET time == IF up THEN Min(ScrubMax, currentTime + 1) ELSE Max(0, currentTime - 1)
  IN /\ time # currentTime
     /\ ScrubInput("scrubKey", time)

\* onMouseUp / onTouchEnd of the scrubber: setIsDragging(false) and, when
\* isPlaying, video.play().
ScrubRelease ==
  /\ SameHost
  /\ Rendered
  /\ \E allowed \in PlayOutcomes :
       /\ SetReact([R0 EXCEPT !.isDragging = FALSE])
       /\ Commit([H0 EXCEPT !.d = IF isPlaying THEN PlayD(H0.d, allowed) ELSE H0.d])
       /\ HistSeek("scrubRelease", isPlaying,
                   IF last.op = "scrubChange" THEN last.arg ELSE -1, isPlaying,
                   <<>>, <<>>, isPlaying /\ ~allowed)
  /\ Activity
  /\ UNCHANGED <<docFullscreen, sinceArmed, advanceSignal, streams, tm>>

\* onClick of the progress bar at fraction num/2 of its width:
\* newTime = pos * duration, written to the element and to currentTime.
ProgressClick(num) ==
  /\ SameHost
  /\ Rendered
  /\ LET newTime == (num * duration) \div 2
     IN \E allowed \in PlayOutcomes :
          /\ SetReact([R0 EXCEPT !.currentTime = newTime])
          /\ Commit([H0 EXCEPT !.d = IF isPlaying
                                       THEN PlayD(SeekD(H0.d, newTime), allowed)
                                       ELSE SeekD(H0.d, newTime)])
          /\ HistSeek("progressClick", isPlaying, -1, FALSE, <<>>, <<newTime>>,
                      isPlaying /\ ~allowed)
  /\ Activity
  /\ UNCHANGED <<docFullscreen, sinceArmed, advanceSignal, streams, tm>>

\* onClick of the Auto-play Next switch, drawn for episodes only.
ToggleAutoPlayNext ==
  /\ SameHost
  /\ Rendered
  /\ streamType = "episode"
  /\ SetReact([R0 EXCEPT !.autoPlayNext = ~autoPlayNext])
  /\ Commit(H0)
  /\ Hist("toggleAutoPlayNext", FALSE)
  /\ Activity
  /\ UNCHANGED <<docFullscreen, sinceArmed, advanceSignal, streams, tm>>

\* toggleFullscreen followed by the platform's fullscreenchange: the request
\* may be refused; handleFullscreenChange mirrors document.fullscreenElement.
FullscreenTo(target, name) ==
  /\ SameHost
  /\ docFullscreen' = target
  /\ SetReact([R0 EXCEPT !.isFullscreen = IF docActive THEN target ELSE isFullscreen])
  /\ Commit(H0)
  /\ Hist(name, FALSE)
  /\ Activity
  /\ UNCHANGED <<sinceArmed, advanceSignal, streams, tm>>

ClickFullscreen ==
  /\ Rendered
  /\ \E granted \in BOOLEAN :
       FullscreenTo(IF docFullscreen THEN FALSE ELSE granted, "toggleFullscreen")


\* -------------------------------------------------------------- keyboard ----
\* The dom and currentTime the registered handleKeyDown leaves for a key.  It
\* calls the togglePlayPause and seek of the render its effect last ran in,
\* so they see kd.isPlaying and kd.duration.
KeyResult(key, allowed) ==
  LET none == [d |-> H0.d, time |-> currentTime, play |-> FALSE, arg |-> -1,
               req |-> <<>>, wrote |-> <<>>]
      seekTo(t) ==
        LET s == seek(H0.d, t, kd.duration, kd.isPlaying, allowed)
        IN [d |-> s.d, time |-> s.time, play |-> kd.isPlaying, arg |-> t,
            req |-> <<t>>, wrote |-> <<s.time>>]
  IN CASE key \in {" ", "k"} ->
            [none EXCEPT !.d = togglePlayPause(H0.d, kd.isPlaying, allowed),
                         !.play = ~kd.isPlaying]
       [] key = "m" -> [none EXCEPT !.d = toggleMute(H0.d)]
       [] key = "ArrowLeft" -> seekTo(currentTime - SeekStep)
       [] key = "ArrowRight" -> seekTo(currentTime + SeekStep)
       [] key = "ArrowUp" ->
            [none EXCEPT !.d = changeVolume(H0.d, Min(MaxVolume, volume + VolumeStep))]
       [] key = "ArrowDown" ->
            [none EXCEPT !.d = changeVolume(H0.d, Max(0, volume - VolumeStep))]
       [] OTHER -> none

\* A key other than f and Escape is pressed: handleKeyDown runs while the
\* document listener is registered.
KeyDown(key) ==
  /\ SameHost
  /\ key \notin {"f", "Escape"}
  /\ \E allowed \in PlayOutcomes :
       LET k == IF docActive /\ Rendered                          \* videoRef.current
                  THEN KeyResult(key, allowed)
                  ELSE [d |-> H0.d, time |-> currentTime, play |-> FALSE, arg |-> -1,
                        req |-> <<>>, wrote |-> <<>>]
       IN /\ SetReact([R0 EXCEPT !.currentTime = k.time])
          /\ Commit([H0 EXCEPT !.d = k.d])
          /\ HistSeek(key, k.play,
                      IF duration > 0 /\ k.arg \in 0..duration THEN k.arg ELSE -1,
                      isPlaying, k.req, k.wrote, k.play /\ ~allowed)
  /\ IF key = "m" /\ docActive /\ Rendered THEN TmToggle ELSE UNCHANGED tm
  /\ Activity
  /\ UNCHANGED <<docFullscreen, sinceArmed, advanceSignal, streams>>

\* keydown f: toggleFullscreen.
KeyFullscreen ==
  /\ docActive
  /\ Rendered
  /\ \E granted \in BOOLEAN :
       FullscreenTo(IF docFullscreen THEN FALSE ELSE granted, "f")

\* keydown Escape: document.exitFullscreen() when isFullscreen.
KeyEscape ==
  /\ docActive
  /\ Rendered
  /\ FullscreenTo(IF isFullscreen THEN FALSE ELSE docFullscreen, "Escape")

\* ------------------------------------------------------ controls visibility ----
\* mousemove on the container: showControlsWithTimeout.
MouseMove ==
  /\ SameHost
  /\ Rendered /\ ctlActive
  /\ SetReact([R0 EXCEPT !.showControls = TRUE])
  /\ Commit([H0 EXCEPT !.timer = [left |-> HideDelay, cap |-> isPlaying]])
  /\ Hist("mousemove", FALSE)
  /\ sinceArmed' = 0
  /\ Activity
  /\ UNCHANGED <<docFullscreen, advanceSignal, streams, tm>>

\* mouseenter on the container.
MouseEnter ==
  /\ SameHost
  /\ Rendered /\ ctlActive
  /\ SetReact([R0 EXCEPT !.showControls = TRUE])
  /\ Commit(H0)
  /\ Hist("mouseenter", FALSE)
  /\ Activity
  /\ UNCHANGED <<docFullscreen, sinceArmed, advanceSignal, streams, tm>>

\* mouseleave on the container.
MouseLeave ==
  /\ SameHost
  /\ Rendered /\ ctlActive
  /\ SetReact([R0 EXCEPT !.showControls = IF isPlaying THEN FALSE ELSE showControls])
  /\ Commit(H0)
  /\ Hist("mouseleave", FALSE)
  /\ UNCHANGED <<docFullscreen, sinceArmed, advanceSignal, streams, tm, idle>>

\* One second passes while the hide timer is pending or the controls are drawn.
Tick ==
  /\ SameHost
  /\ timer.left > 0 \/ (Rendered /\ idle < HideDelay)
  /\ SetReact(R0)
  /\ Commit([H0 EXCEPT !.timer.left = IF timer.left > 0 THEN timer.left - 1 ELSE timer.left])
  /\ Hist("tick", FALSE)
  /\ sinceArmed' = Min(sinceArmed + 1, HideDelay)
  /\ idle' = Min(idle + 1, HideDelay)
  /\ UNCHANGED <<docFullscreen, advanceSignal, streams, tm>>

\* The setTimeout callback: if (isPlaying) setShowControls(false), with the
\* isPlaying of the render that armed it.
TimerFire ==
  /\ SameHost
  /\ timer.left = 0
  /\ SetReact([R0 EXCEPT !.showControls = IF timer.cap THEN FALSE ELSE showControls])
  /\ Commit([H0 EXCEPT !.timer = NoTimer])
  /\ Hist("timer", FALSE)
  /\ UNCHANGED <<docFullscreen, sinceArmed, advanceSignal, streams, tm, idle>>


\* ----------------------------------------------------- media element events ----
\* Playback granularity: seconds the position advances in one step.
AdvStep == 2

\* The element learns its duration and fires loadedmetadata:
\* handleLoadedMetadata copies video.duration.
LoadedMetadata ==
  /\ SameHost
  /\ el.src # NoSource /\ el.duration = 0
  /\ LET dur == MediaDuration(streamUrl)
         e == [el EXCEPT !.duration = dur, !.time = Min(el.time, dur)]
     IN /\ SetReact([R0 EXCEPT !.duration = IF attachActive THEN dur ELSE duration])
        /\ Commit([H0 EXCEPT !.d.el = e])
  /\ Hist("loadedmetadata", FALSE)
  /\ UNCHANGED <<docFullscreen, sinceArmed, advanceSignal, streams, tm, idle>>

\* Playback moves the position; no listener runs.
Advance ==
  /\ SameHost
  /\ ~el.paused /\ el.duration # 0 /\ el.time < el.duration
  /\ SetReact(R0)
  /\ Commit([H0 EXCEPT !.d.el.time = Min(el.time + AdvStep, el.duration)])
  /\ Hist("advance", FALSE)
  /\ UNCHANGED <<docFullscreen, sinceArmed, advanceSignal, streams, tm, idle>>

\* timeupdate: updateProgress, which needs videoRef.current.
TimeUpdate ==
  /\ SameHost
  /\ el.src # NoSource
  /\ SetReact([R0 EXCEPT !.currentTime =
                 IF attachActive /\ Rendered
                   THEN updateProgress(H0.d, isDragging, currentTime)
                   ELSE currentTime])
  /\ Commit(H0)
  /\ HistArg("timeupdate", FALSE,
             IF last.op \in {"ArrowLeft", "ArrowRight"} THEN last.arg ELSE -1,
             last.op \in {"ArrowLeft", "ArrowRight"} /\ last.was)
  /\ UNCHANGED <<docFullscreen, sinceArmed, advanceSignal, streams, tm, idle>>

\* Playback reaches the end: the element pauses itself and queues pause and
\* ended.
ReachEnd ==
  /\ SameHost
  /\ ~el.paused /\ el.duration # 0 /\ el.time = el.duration
  /\ SetReact(R0)
  /\ Commit([H0 EXCEPT !.d = [el |-> [el EXCEPT !.paused = TRUE],
                              q |-> evq \o <<"pause", "ended">>]])
  /\ Hist("reachEnd", FALSE)
  /\ UNCHANGED <<docFullscreen, sinceArmed, advanceSignal, streams, tm, idle>>

\* The next queued event is dispatched to the attach effect's listeners:
\* handlePlay, handlePause, handleVolumeChange, handleEnded.
Dispatch ==
  /\ SameHost
  /\ evq # <<>>
  /\ LET ev == Head(evq)
         r == IF ~attachActive THEN R0
              ELSE CASE ev = "play" -> [R0 EXCEPT !.isPlaying = TRUE]
                     [] ev = "pause" -> [R0 EXCEPT !.isPlaying = FALSE]
                     [] ev = "ended" -> [R0 EXCEPT !.isPlaying = FALSE]
                     [] OTHER -> [R0 EXCEPT !.volume = el.volume, !.isMuted = el.muted]
     IN /\ SetReact(r)
        /\ Commit([H0 EXCEPT !.d.q = Tail(evq)])
        /\ Hist(ev, FALSE)
        /\ advanceSignal' = IF ev = "ended" /\ attachActive
                              THEN AutoAdvance(streamType, hasNext, autoPlayNext)
                              ELSE advanceSignal
  /\ UNCHANGED <<docFullscreen, sinceArmed, streams, tm, idle>>

\* error on the element: handleError sets the error unless an engine is
\* referenced.
VideoError ==
  /\ SameHost
  /\ el.src # NoSource
  /\ SetReact(R0)
  /\ Commit([H0 EXCEPT !.err = IF attachActive /\ hlsRef = 0 THEN "video" ELSE error])
  /\ Hist("error", FALSE)
  /\ UNCHANGED <<docFullscreen, sinceArmed, advanceSignal, streams, tm, idle>>

\* --------------------------------------------------------- engine events ----
\* An ERROR handler that takes the error back on a non-fatal fault.
onHlsErrorClearsOnNonFatal(fatal, type, err) == IF fatal THEN "hls" ELSE "none"

\* Hls.Events.ERROR from the referenced engine: a fatal one sets the error,
\* whatever its type; a non-fatal one is logged.
onHlsError(fatal, type, err) == IF fatal THEN "hls" ELSE err

HlsError(fatal, type) ==
  /\ SameHost
  /\ hlsRef # 0 /\ hlsRef \in hlsAlive
  /\ fatal => faults < MaxFaults
  /\ SetReact(R0)
  /\ Commit([H0 EXCEPT !.err = onHlsError(fatal, type, error),
                       !.faults = IF fatal THEN faults + 1 ELSE faults])
  /\ Hist(IF fatal THEN type ELSE "nonFatal", FALSE)
  /\ UNCHANGED <<docFullscreen, sinceArmed, advanceSignal, streams, tm, idle>>

\* Hls.Events.MANIFEST_PARSED: the player registers no listener for it.
ManifestParsed ==
  /\ SameHost
  /\ manifestPending /\ hlsRef \in hlsAlive
  /\ SetReact(R0)
  /\ Commit([H0 EXCEPT !.mp = FALSE])
  /\ Hist("manifestParsed", FALSE)
  /\ UNCHANGED <<docFullscreen, sinceArmed, advanceSignal, streams, tm, idle>>

\* ------------------------------------------------------- the hosting page ----
\* The mounted player is rendered with other props.
SwitchTo(url, type, next) ==
  /\ mounted /\ streams < MaxStreams
  /\ <<url, type, next>> # <<streamUrl, streamType, hasNext>>
  /\ streamUrl' = url /\ streamType' = type /\ hasNext' = next
  /\ UNCHANGED <<mounted, hlsSupported, nativeHls>>
  /\ SetReact(R0)
  /\ Commit(H0)
  /\ Hist("changeStream", FALSE)
  /\ streams' = streams + 1
  /\ UNCHANGED <<docFullscreen, sinceArmed, advanceSignal, tm, idle>>

\* The player is unmounted: every effect's cleanup runs.
Teardown ==
  /\ mounted
  /\ mounted' = FALSE
  /\ UNCHANGED <<streamUrl, streamType, hasNext, hlsSupported, nativeHls>>
  /\ SetReact(R0)
  /\ Commit(H0)
  /\ Hist("unmount", FALSE)
  /\ UNCHANGED <<docFullscreen, sinceArmed, advanceSignal, streams, tm, idle>>

\* The page hands the mounted player another stream: the route changed and
\* the resolver answered its request with success.
ChangeStream(url, type, next) ==
  /\ SwitchTo(url, type, next)
  /\ LET pg == PageShowing(url, type, next)
     IN /\ pgRoute' = pg.route
        /\ pgStreamUrl' = pg.url
        /\ pgUrlOf' = pg.of
        /\ pgInfoOf' = pg.of
        /\ pgEpisodeOf' = pg.episodeOf
        /\ pgLast' = pg.last
  /\ UNCHANGED <<pgProfile, pgLoading, pgError, pgInflight, StoreVars>>

\* The page itself goes away and the player with it.
Unmount ==
  /\ Teardown
  /\ UNCHANGED <<PageVars, StoreVars>>

\* ------------------------------------------------------------------ Next ----
ScrubValues == {0, 3, MaxDur, ScrubMaxUnknown}
VolumeValues == {0, 5, MaxVolume}

Next ==
  \/ ClickPlayPause
  \/ ClickMute
  \/ \E v \in VolumeValues : SlideVolume(v)
  \/ \E t \in ScrubValues : ScrubChange(t)
  \/ \E up \in BOOLEAN : ScrubKey(up)
  \/ ScrubRelease
  \/ \E n \in 0..2 : ProgressClick(n)
  \/ ToggleAutoPlayNext
  \/ ClickFullscreen
  \/ \E key \in Keys : KeyDown(key)
  \/ KeyFullscreen
  \/ KeyEscape
  \/ MouseMove
  \/ MouseEnter
  \/ MouseLeave
  \/ Tick
  \/ TimerFire
  \/ LoadedMetadata
  \/ Advance
  \/ TimeUpdate
  \/ ReachEnd
  \/ Dispatch
  \/ VideoError
  \/ \E fatal \in BOOLEAN, type \in ErrorKinds : HlsError(fatal, type)
  \/ ManifestParsed
  \/ \E url \in Urls, type \in StreamTypes, next \in BOOLEAN : ChangeStream(url, type, next)
  \/ Unmount

Spec == Init /\ [][Next]_vars


\* ----------------------------------------------- seeking and scrubbing ----
\* The part of the player that moves the position: play/pause, the scrubber,
\* the progress bar, the seek keys and the element's own events, for a movie
\* played through the engine or as a file.  The actions left out write none
\* of the variables these actions read.
InitSeek ==
  /\ Init
  /\ streamType = "movie" /\ ~hasNext
  /\ hlsSupported /\ ~nativeHls
  /\ streamUrl \in {"a.m3u8", "c.mp4"}

SeekKeys == {" ", "ArrowLeft", "ArrowRight"}

NextSeek ==
  \/ ClickPlayPause
  \/ \E t \in ScrubValues : ScrubChange(t)
  \/ ScrubRelease
  \/ \E n \in 0..2 : ProgressClick(n)
  \/ \E key \in SeekKeys : KeyDown(key)
  \/ LoadedMetadata
  \/ Advance
  \/ TimeUpdate
  \/ ReachEnd
  \/ Dispatch

SpecSeek == InitSeek /\ [][NextSeek]_vars

\* The scrubber alone, driven by the pointer and by the keyboard, on a file
\* that plays.
InitScrub == InitSeek /\ streamUrl = "c.mp4"

NextScrub ==
  \/ ClickPlayPause
  \/ \E t \in ScrubValues : ScrubChange(t)
  \/ \E up \in BOOLEAN : ScrubKey(up)
  \/ ScrubRelease
  \/ LoadedMetadata
  \/ Advance
  \/ TimeUpdate
  \/ Dispatch

SpecScrub == InitScrub /\ [][NextScrub]_vars


\* ---------------------------------------------------- controls visibility ----
\* The part of the player that shows and hides the controls: play/pause by
\* click and by key, the pointer, the hide timer and the element's events,
\* for a movie played as a file.
InitControls ==
  /\ Init
  /\ streamType = "movie" /\ ~hasNext
  /\ hlsSupported /\ ~nativeHls
  /\ streamUrl = "c.mp4"

NextControls ==
  \/ ClickPlayPause
  \/ KeyDown(" ")
  \/ MouseMove
  \/ MouseEnter
  \/ MouseLeave
  \/ Tick
  \/ TimerFire
  \/ LoadedMetadata
  \/ Advance
  \/ ReachEnd
  \/ Dispatch

SpecControls == InitControls /\ [][NextControls]_vars

\* ------------------------------------------------------- volume and mute ----
\* The part of the player that tracks volume and mute: the mute button, the
\* volume slider, the m and up/down keys and the volumechange events.
MuteKeys == {"m", "ArrowUp", "ArrowDown"}

NextMute ==
  \/ ClickMute
  \/ \E v \in VolumeValues : SlideVolume(v)
  \/ \E key \in MuteKeys : KeyDown(key)
  \/ Dispatch

SpecMute == InitControls /\ [][NextMute]_vars

\* The same part with the slider's handler called with values beyond both
\* ends of the slider's range.
VolumeOvershoot == 2

CommandedVolumes == (0 - VolumeOvershoot)..(MaxVolume + VolumeOvershoot)

NextVolume ==
  \/ ClickMute
  \/ \E v \in CommandedVolumes : SlideVolume(v)
  \/ \E key \in MuteKeys : KeyDown(key)
  \/ Dispatch

SpecVolume == InitControls /\ [][NextVolume]_vars

\* ------------------------------------------------------ session lifetime ----
\* The part of the player that binds and releases the stream: attach on every
\* platform, engine and element faults, the manifest, stream changes and
\* unmount, with play/pause, for a live stream and for an episode.
SessionUrls == {"b.m3u8", "c.mp4"}

InitSession ==
  /\ Init
  /\ streamUrl \in SessionUrls
  /\ streamType \in {"live", "episode"}

NextSession ==
  \/ ClickPlayPause
  \/ KeyDown(" ")
  \/ Dispatch
  \/ VideoError
  \/ \E fatal \in BOOLEAN, type \in ErrorKinds : HlsError(fatal, type)
  \/ ManifestParsed
  \/ \E url \in SessionUrls : ChangeStream(url, streamType, hasNext)
  \/ Unmount

SpecSession == InitSession /\ [][NextSession]_vars

\* ---------------------------------------------------------------- teardown ----
\* The part of the player that unmount has to release: a live stream played
\* through the engine or as a file, with play/pause, the pointer, the hide
\* timer, a fatal engine fault, and unmount at any moment.
InitTeardown ==
  /\ Init
  /\ streamUrl \in SessionUrls
  /\ streamType = "live" /\ ~hasNext
  /\ hlsSupported /\ ~nativeHls

NextTeardown ==
  \/ ClickPlayPause
  \/ KeyDown(" ")
  \/ MouseMove
  \/ Tick
  \/ TimerFire
  \/ Dispatch
  \/ HlsError(TRUE, "networkError")
  \/ ManifestParsed
  \/ Unmount

SpecTeardown == InitTeardown /\ [][NextTeardown]_vars

\* ---------------------------------------------------------- stream switch ----
\* The part of the player a stream change meets while the hide timeout is
\* pending: play/pause, pointer movement, the clock, the timeout and the
\* page's change of stream.
NextSwitch ==
  \/ ClickPlayPause
  \/ MouseMove
  \/ Tick
  \/ TimerFire
  \/ Dispatch
  \/ \E url \in SessionUrls : ChangeStream(url, streamType, hasNext)

SpecSwitch == InitTeardown /\ [][NextSwitch]_vars


\* ------------------------------------------------------------ no player ----
\* No player is mounted: the state a page without a player leaves the player's
\* variables in.
PlayerAbsent ==
  /\ mounted = FALSE
  /\ streamUrl = NoSource /\ streamType = "movie" /\ hasNext = FALSE
  /\ hlsSupported \in BOOLEAN /\ nativeHls \in BOOLEAN
  /\ isPlaying = FALSE /\ currentTime = 0 /\ duration = 0
  /\ volume = InitVolume /\ isMuted = FALSE /\ isFullscreen = FALSE
  /\ showControls = TRUE /\ error = "none" /\ isDragging = FALSE
  /\ autoPlayNext = TRUE
  /\ el = FreshEl /\ evq = <<>>
  /\ hlsRef = 0 /\ hlsAlive = {} /\ hlsCfg = NoConfig /\ manifestPending = FALSE
  /\ attachActive = FALSE /\ ctlActive = FALSE /\ docActive = FALSE
  /\ kd = [duration |-> 0, isPlaying |-> FALSE]
  /\ timer = NoTimer /\ docFullscreen = FALSE
  /\ last = [op |-> "absent", play |-> FALSE, arg |-> -1, was |-> FALSE,
             req |-> <<>>, wrote |-> <<>>, rej |-> FALSE]
  /\ torn = FALSE /\ sinceArmed = 0 /\ idle = 0 /\ advanceSignal = FALSE
  /\ faults = 0 /\ streams = 0
  /\ tm = [n |-> 0, el |-> FALSE, st |-> FALSE]

\* The player page is not open.
PageClosed ==
  /\ pgRoute = [type |-> "movie", id |-> 1]
  /\ pgProfile = "closed"
  /\ pgLoading = TRUE /\ pgError = "none" /\ pgStreamUrl = ""
  /\ pgUrlOf = <<>> /\ pgInfoOf = <<>> /\ pgEpisodeOf = <<>>
  /\ pgInflight = {}
  /\ pgLast = [op |-> "closed", route |-> pgRoute, outcome |-> "none"]

\* ------------------------------------------------------- the profile store ----
ProfileIds == 1..MaxProfiles

\* db.getSelectedProfile(): the record of the selectedProfile store, or null (0).
getSelectedProfile == dbSelected

\* db.saveProfile(profile): put into the profiles store (login page).
saveProfile(id) ==
  /\ dbProfiles' = dbProfiles \cup {id}
  /\ dbLast' = [op |-> "saveProfile", id |-> id]
  /\ UNCHANGED <<dbSelected, dbCache>>
  /\ UNCHANGED <<PlayerVars, PageVars>>

\* db.setSelectedProfile(profile): put a copy under the key 'current'.  Its
\* callers pass a profile of the store (the profiles page's list, the
\* profile the login page has just saved).
setSelectedProfile(id) ==
  /\ id \in dbProfiles
  /\ dbSelected' = id
  /\ dbLast' = [op |-> "setSelectedProfile", id |-> id]
  /\ UNCHANGED <<dbProfiles, dbCache>>
  /\ UNCHANGED <<PlayerVars, PageVars>>

\* The pages' save...Categories / save...Streams for the profile that
\* getSelectedProfile returned.
saveStreams ==
  /\ getSelectedProfile # 0
  /\ dbCache' = dbCache \cup {getSelectedProfile}
  /\ dbLast' = [op |-> "saveStreams", id |-> getSelectedProfile]
  /\ UNCHANGED <<dbProfiles, dbSelected>>
  /\ UNCHANGED <<PlayerVars, PageVars>>

\* handleDeleteProfile -> db.deleteProfile(id): delete from the profiles
\* store, then from the six cache stores; a failure there is caught and
\* logged.
deleteProfile(id, cacheDeleted) ==
  /\ id \in dbProfiles
  /\ dbProfiles' = dbProfiles \ {id}
  /\ dbCache' = IF cacheDeleted THEN dbCache \ {id} ELSE dbCache
  /\ dbLast' = [op |-> "deleteProfile", id |-> id]
  /\ UNCHANGED dbSelected
  /\ UNCHANGED <<PlayerVars, PageVars>>

InitStore ==
  /\ PlayerAbsent
  /\ PageClosed
  /\ dbProfiles = {} /\ dbSelected = 0 /\ dbCache = {}
  /\ dbLast = [op |-> "open", id |-> 0]

NextStore ==
  \/ \E id \in ProfileIds : saveProfile(id)
  \/ \E id \in ProfileIds : setSelectedProfile(id)
  \/ saveStreams
  \/ \E id \in ProfileIds, cacheDeleted \in BOOLEAN : deleteProfile(id, cacheDeleted)

SpecStore == InitStore /\ [][NextStore]_vars

\* ------------------------------------------------------- the player page ----
\* The routes the page is opened with: params type and id.
Routes == {[type |-> "live", id |-> 1], [type |-> "movie", id |-> 3],
           [type |-> "episode", id |-> 2]}

\* What a resolver request ends in: success with a streamUrl, success without
\* one, success=false, a response that is not ok.
Outcomes == {"ok", "okNoUrl", "fail", "http"}

\* A render guard that forgets the test of streamUrl.
PlayerShownIgnoringUrl(loading, err, url) == ~loading /\ err = "none"

\* The render guards: the spinner while loading, the panel on an error, "No
\* stream URL available" without a streamUrl, else the player.
PlayerShown(loading, err, url) == ~loading /\ err = "none" /\ url # ""

\* The first render of the player and its effects.
Mount(url, type, next) ==
  /\ ~mounted
  /\ mounted' = TRUE
  /\ streamUrl' = url /\ streamType' = type /\ hasNext' = next
  /\ UNCHANGED <<hlsSupported, nativeHls>>
  /\ isPlaying' = FALSE /\ currentTime' = 0 /\ duration' = 0
  /\ volume' = InitVolume /\ isMuted' = FALSE /\ isFullscreen' = FALSE
  /\ showControls' = TRUE /\ isDragging' = FALSE /\ autoPlayNext' = TRUE
  /\ LET a == AttachBody([el |-> FreshEl, q |-> <<>>], url, type,
                         InitVolume, FALSE, 0, {})
     IN /\ el' = a.d.el
        /\ evq' = a.d.q
        /\ hlsRef' = a.ref
        /\ hlsAlive' = a.alive
        /\ hlsCfg' = a.cfg
        /\ manifestPending' = a.mp
        /\ error' = a.err
  /\ attachActive' = TRUE /\ ctlActive' = TRUE /\ docActive' = TRUE
  /\ kd' = [duration |-> 0, isPlaying |-> FALSE]
  /\ timer' = NoTimer /\ docFullscreen' = FALSE
  /\ Hist("mount", FALSE)
  /\ torn' = FALSE /\ sinceArmed' = 0 /\ idle' = 0 /\ advanceSignal' = FALSE
  /\ faults' = 0
  /\ tm' = [n |-> 0, el |-> FALSE, st |-> FALSE]
  /\ UNCHANGED streams

\* What a render of the page does to the player: mount it, hand it other
\* props, leave it alone, or unmount it.
RenderPage ==
  LET shown == PlayerShown(pgLoading', pgError', pgStreamUrl')
      type == pgRoute'.type
      next == pgEpisodeOf' # <<>>
  IN \/ /\ shown /\ ~mounted
        /\ Mount(pgStreamUrl', type, next)
     \/ /\ shown /\ mounted
        /\ <<pgStreamUrl', type, next>> # <<streamUrl, streamType, hasNext>>
        /\ SwitchTo(pgStreamUrl', type, next)
     \/ /\ shown /\ mounted
        /\ <<pgStreamUrl', type, next>> = <<streamUrl, streamType, hasNext>>
        /\ UNCHANGED PlayerVars
     \/ /\ ~shown /\ mounted
        /\ Teardown
     \/ /\ ~shown /\ ~mounted
        /\ UNCHANGED PlayerVars

\* The fetchStreamInfo effect: it returns early without a profile, else it
\* sends the request of the route.
Requested(profile, route) == IF profile = "loaded" THEN {route} ELSE {}

\* loadProfile settles: when the read throws or there is no selected profile
\* the page shows an error, else the profile is set and the effect sends the
\* route's request.
ProfileLoaded(thrown) ==
  /\ pgProfile = "loading"
  /\ IF thrown \/ getSelectedProfile = 0
     THEN /\ pgProfile' = "none"
          /\ pgError' = IF thrown THEN "profile" ELSE "noProfile"
          /\ pgLoading' = FALSE
     ELSE /\ pgProfile' = "loaded"
          /\ UNCHANGED <<pgError, pgLoading>>
  /\ pgInflight' = pgInflight \cup Requested(pgProfile', pgRoute)
  /\ pgLast' = [op |-> "profile", route |-> pgRoute, outcome |-> "none"]
  /\ UNCHANGED <<pgRoute, pgStreamUrl, pgUrlOf, pgInfoOf, pgEpisodeOf>>
  /\ RenderPage
  /\ UNCHANGED StoreVars

\* The page is rendered with other params: the effect runs again.  Nothing
\* of the page's state is reset and nothing in flight is cancelled.  One
\* request per route is pending at a time.
Navigate(route) ==
  /\ pgProfile # "closed"
  /\ route # pgRoute
  /\ route \notin pgInflight
  /\ pgRoute' = route
  /\ pgInflight' = pgInflight \cup Requested(pgProfile, route)
  /\ pgLast' = [op |-> "navigate", route |-> route, outcome |-> "none"]
  /\ UNCHANGED <<pgProfile, pgLoading, pgError, pgStreamUrl, pgUrlOf, pgInfoOf,
                 pgEpisodeOf>>
  /\ RenderPage
  /\ UNCHANGED StoreVars

\* A request of fetchStreamInfo settles.  type is the value the request's
\* closure captured.
Respond(route, outcome) ==
  /\ route \in pgInflight
  /\ pgInflight' = pgInflight \ {route}
  /\ IF outcome \in {"ok", "okNoUrl"}
     THEN /\ pgInfoOf' = <<route>>
          /\ pgEpisodeOf' = IF route.type = "episode" THEN <<route>> ELSE pgEpisodeOf
          /\ pgStreamUrl' = IF outcome = "ok" THEN StreamOf(route.id) ELSE ""
          /\ pgUrlOf' = IF outcome = "ok" THEN <<route>> ELSE <<>>
          /\ UNCHANGED pgError
     ELSE /\ pgError' = "api"
          /\ UNCHANGED <<pgInfoOf, pgEpisodeOf, pgStreamUrl, pgUrlOf>>
  /\ pgLoading' = FALSE
  /\ pgLast' = [op |-> "response", route |-> route, outcome |-> outcome]
  /\ UNCHANGED <<pgRoute, pgProfile>>
  /\ RenderPage
  /\ UNCHANGED StoreVars

\* The page has just been opened: first render, no effect has settled.
InitPage ==
  /\ PlayerAbsent
  /\ pgRoute \in Routes
  /\ pgProfile = "loading"
  /\ pgLoading = TRUE /\ pgError = "none" /\ pgStreamUrl = ""
  /\ pgUrlOf = <<>> /\ pgInfoOf = <<>> /\ pgEpisodeOf = <<>>
  /\ pgInflight = {}
  /\ pgLast = [op |-> "open", route |-> pgRoute, outcome |-> "none"]
  /\ dbProfiles = {1} /\ dbSelected \in {0, 1} /\ dbCache = {}
  /\ dbLast = [op |-> "open", id |-> 0]

NextPage ==
  \/ \E thrown \in BOOLEAN : ProfileLoaded(thrown)
  \/ \E route \in Routes : Navigate(route)
  \/ \E route \in Routes, outcome \in Outcomes : Respond(route, outcome)

SpecPage == InitPage /\ [][NextPage]_vars

\* ------------------------------------------------------- playing to the end ----
\* The part of the player that plays a stream to its end: play/pause, the
\* Auto-play Next switch and the element's events, for every stream type,
\* with and without a next episode.
InitPlayback ==
  /\ Init
  /\ streamUrl \in SessionUrls
  /\ hlsSupported /\ ~nativeHls

NextPlayback ==
  \/ ClickPlayPause
  \/ ToggleAutoPlayNext
  \/ LoadedMetadata
  \/ Advance
  \/ TimeUpdate
  \/ ReachEnd
  \/ Dispatch

SpecPlayback == InitPlayback /\ [][NextPlayback]_vars

\* ================================================================ claims ====
SeekOps == {"ArrowLeft", "ArrowRight"}

\* C1: for every time in [0, duration], seek(time) followed by the next
\* timeupdate leaves the tracked currentTime equal to time, and a session
\* that was playing before the seek is playing afterwards.  (last.arg is the
\* time the seek just before this timeupdate asked for, when it lay in
\* [0, duration]; last.was is the isPlaying the seek started from.)
C1_SeekThenTimeUpdate ==
  (last.op = "timeupdate" /\ last.arg >= 0 /\ Rendered)
     => /\ currentTime = last.arg
        /\ last.was => isPlaying

\* C1, the part about playback alone: a seek and the timeupdate after it
\* never turn isPlaying off.
C1_StaysPlaying ==
  (last.op = "timeupdate" /\ last.arg >= 0 /\ last.was) => isPlaying

\* C2 as stated: while isDragging, the displayed time changes only through
\* scrubber input; in particular no timeupdate changes it.
C2_OnlyScrubberMovesTime ==
  [][(isDragging /\ currentTime' # currentTime) => last'.op = "scrubChange"]_vars

\* C2 amended: while isDragging, no timeupdate changes the displayed time; it
\* changes only through scrubber input, an arrow-key seek or a click on the
\* progress bar.
C2_TimeUpdateHeldWhileDragging ==
  [][(isDragging /\ currentTime' # currentTime)
        => last'.op \in {"scrubChange", "progressClick"} \cup SeekOps]_vars

\* C2 witness: a timeupdate arrived during a drag while the element's position
\* differed from the displayed time, and the display kept its value.
C2_Witness ==
  /\ isDragging /\ Rendered /\ attachActive
  /\ last.op = "timeupdate"
  /\ el.time # currentTime

\* C3: releasing a drag clears isDragging and leaves the element at the last
\* pendingTime set by scrubber input.  (last.arg is that pendingTime when the
\* release follows the input directly.)
C3_ReleaseCommitsPendingTime ==
  (last.op = "scrubRelease" /\ last.arg >= 0 /\ duration > 0)
     => ~isDragging /\ el.time = last.arg

\* C4: the first fatal Network (respectively Media) fault of a session is
\* answered by one restart-load (respectively recover-media-error) call and
\* shows no error; only a second fatal fault puts the session in the error
\* state.
C4_FirstFaultIsRecovered ==
  (last.op \in {"networkError", "mediaError"} /\ faults = 1) => error = "none"

\* C5: in every reachable state, controls Hidden implies isPlaying: a pause or
\* ended event that arrives while the controls are Hidden forces them Visible.
C5_HiddenImpliesPlaying ==
  (Rendered /\ ~showControls) => isPlaying

C7_DoubleToggleRestoresMute ==
  (tm.n = 2 /\ evq = <<>>) => (el.muted = tm.el /\ isMuted = tm.st)

\* C7 witness: a double toggle was observed to its end, the last step being
\* the handling of a volumechange event.
C7_Witness ==
  /\ tm.n = 2 /\ evq = <<>>
  /\ last.op = "volumechange"

\* The controller's tracked state.
ControllerState ==
  <<isPlaying, currentTime, duration, volume, isMuted, isFullscreen,
    showControls, error, isDragging, autoPlayNext>>

\* Everything the player acquired is released.
Released ==
  /\ hlsAlive = {} /\ hlsRef = 0
  /\ el.src = NoSource
  /\ ~attachActive /\ ~ctlActive /\ ~docActive
  /\ timer = NoTimer

\* C8: once the player is unmounted, also while playing, the engine is
\* destroyed, the native source cleared, the element and document listeners
\* and the hide timer removed, and no later media, engine, timer or keyboard
\* event changes the controller's state.
C8_UnmountReleasesEverything ==
  [][~mounted' => (Released' /\ (~mounted => ControllerState' = ControllerState))]_vars

\* C8 witness: the player was unmounted while playing through an engine and a
\* key was pressed afterwards.
C8_Witness ==
  /\ ~mounted /\ isPlaying
  /\ AttachPath(streamUrl) = "engine"
  /\ last.op = " "

\* C9: an engine created for a manifest URL has the low-latency profile when
\* the stream is live and the standard profile otherwise, and the
\* manifest-parsed signal calls play().
C9_ProfileAndAutoplay ==
  /\ (mounted /\ hlsRef # 0) => hlsCfg = LegacyHlsConfig(streamType)
  /\ last.op = "manifestParsed" => last.play

\* C10: the ended event turns isPlaying off in every case and signals the
\* auto-advance only for an episode with a nextEpisodeId and auto-advance
\* enabled; without a nextEpisodeId it signals nothing.
C10_AdvanceOnlyWithNextEpisode ==
  (last.op = "ended" /\ attachActive)
     => /\ ~isPlaying
        /\ advanceSignal => (streamType = "episode" /\ hasNext /\ autoPlayNext)
        /\ ~hasNext => ~advanceSignal

\* C10 witness: an episode without a nextEpisodeId ended with auto-advance
\* enabled.
C10_Witness ==
  /\ last.op = "ended" /\ attachActive
  /\ streamType = "episode" /\ ~hasNext /\ autoPlayNext

\* C10 witness of the positive case: the auto-advance was signalled.
C10_Signalled ==
  last.op = "ended" /\ advanceSignal

\* C11: every seek path writes a position inside [0, duration], and seek(time)
\* writes max(0, min(duration, time)) for every time, negative and above
\* duration included.  (last.wrote is the position the last step assigned to
\* video.currentTime, last.req the time it passed to seek.)
C11_SeekWritesClampedTime ==
  (Rendered /\ duration > 0 /\ last.wrote # <<>>)
     => /\ last.wrote[1] \in 0..duration
        /\ (last.req # <<>>) => (last.wrote[1] = Max(0, Min(duration, last.req[1])))

\* C12: the engine and the native source are torn down only when streamUrl
\* changes or the player unmounts; a scrub drag or the Auto-play Next switch
\* leaves the session attached.  (torn: the last step ran the attach effect's
\* cleanup.)
C12_TornOnlyOnStreamChange ==
  torn => last.op \in {"changeStream", "unmount"}

\* C13: whenever the error display is shown, no live engine instance remains
\* and the native source is cleared.
C13_ErrorMeansTornDown ==
  (mounted /\ error \in {"hls", "unsupported"})
     => (hlsAlive = {} /\ el.src = NoSource)

\* C14: once the error state is entered, no media event, engine event, timer
\* or user command of the same session clears it.
C14_ErrorIsTerminal ==
  [][(mounted /\ error # "none" /\ mounted' /\ streamUrl' = streamUrl)
        => error' # "none"]_vars

\* C14 witness: a play event was handled, and isPlaying set, while the engine's
\* error was displayed.
C14_Witness ==
  /\ mounted /\ error = "hls"
  /\ last.op = "play" /\ isPlaying

\* C15: supplying a different streamUrl while the error is displayed starts a
\* fresh session: the error is cleared and the new stream is attached.
C15_NewStreamLeavesError ==
  [][(mounted /\ error # "none" /\ mounted' /\ streamUrl' # streamUrl
        /\ (IsM3u8(streamUrl') => (hlsSupported \/ nativeHls)))
        => (error' = "none" /\ attachActive' /\ el'.src # NoSource)]_vars

\* C16: an attached session has the path its URL and the platform select: an
\* engine for a manifest URL with engine support; the URL as native source
\* for a manifest URL the element can play itself and for every other URL,
\* with no engine; Unsupported with no source and no engine otherwise.  (An
\* error of an earlier fault that is still displayed is left aside.)
C16_AttachSelectsPath ==
  (mounted /\ attachActive /\ error \notin {"hls", "video"})
     => CASE IsM3u8(streamUrl) /\ hlsSupported ->
               /\ hlsRef # 0 /\ hlsAlive = {hlsRef}
               /\ el.src = "mse" /\ error = "none"
          [] IsM3u8(streamUrl) /\ ~hlsSupported /\ nativeHls ->
               /\ hlsRef = 0 /\ hlsAlive = {}
               /\ el.src = streamUrl /\ error = "none"
          [] IsM3u8(streamUrl) /\ ~hlsSupported /\ ~nativeHls ->
               /\ hlsRef = 0 /\ hlsAlive = {}
               /\ el.src = NoSource /\ error = "unsupported"
          [] OTHER ->
               /\ hlsRef = 0 /\ hlsAlive = {}
               /\ el.src = streamUrl /\ error = "none"

\* C16 witness: the page switched from a file to a manifest URL on a platform
\* without engine support and without native support.
C16_Witness ==
  /\ mounted /\ attachActive /\ last.op = "changeStream"
  /\ IsM3u8(streamUrl) /\ ~hlsSupported /\ ~nativeHls
  /\ error = "unsupported"

\* C17: after a play() the browser rejected (from the play/pause toggle, from
\* seek's resume or from the scrubber's release) the error is unset and the
\* session is Paused: isPlaying is false, or is about to be set false by a
\* pause or ended event already queued.
C17_RejectedPlayLeavesPaused ==
  last.rej
    => /\ error = "none"
       /\ \/ ~isPlaying
          \/ \E i \in 1..Len(evq) : evq[i] \in {"pause", "ended"}

\* C18: after every activity event on the rendered player (pointer move,
\* pointer enter, click, key press) the controls are visible.
C18_ActivityShowsControls ==
  (Rendered /\ ctlActive /\ docActive
      /\ last.op \in {"mousemove", "mouseenter", "clickPlayPause", " "})
     => showControls

\* C19: while the player is playing with its controls visible and no media
\* event is waiting, a hide timeout that will hide them is pending (otherwise
\* nothing hides them, however long the pointer stays still).
C19_PlayingVisibleHasHideTimer ==
  (Rendered /\ ctlActive /\ isPlaying /\ showControls /\ evq = <<>>)
     => (timer.left >= 0 /\ timer.cap)

\* C20: a space or k press made while no media event is waiting and the
\* tracked isPlaying agrees with the element issues play() if the session is
\* paused and pause() if it is playing.
C20_KeyTogglesCurrentState ==
  [][(last'.op \in {" ", "k"} /\ docActive /\ Rendered
        /\ evq = <<>> /\ isPlaying = ~el.paused)
        => (last'.play = ~isPlaying)]_vars

\* C21: an arrow key press made once the duration is known, while the tracked
\* position agrees with the element, leaves the element at the position plus
\* (right) or minus (left) ten seconds, clamped to [0, duration].
C21_ArrowSeeksTenSeconds ==
  [][(last'.op \in {"ArrowLeft", "ArrowRight"} /\ docActive /\ Rendered
        /\ duration > 0 /\ el.duration = duration /\ el.time = currentTime)
        => LET target == IF last'.op = "ArrowRight"
                           THEN currentTime + SeekStep
                           ELSE currentTime - SeekStep
           IN el'.time = Max(0, Min(duration, target))]_vars

\* C22: the element's volume and the tracked volume are always within
\* [0, 1], and right after changeVolume(v) the element's volume is
\* max(0, min(1, v)).
C22_VolumeInRange ==
  /\ volume \in 0..MaxVolume
  /\ el.volume \in 0..MaxVolume
  /\ (last.op = "slideVolume" /\ Rendered)
        => el.volume = Max(0, Min(MaxVolume, last.req[1]))

\* C22 witness: the slider's handler was called with a value above 1 or
\* below 0, and the element took the nearest end of the range.
C22_Witness ==
  /\ last.op = "slideVolume" /\ Rendered
  /\ \/ last.req[1] > MaxVolume /\ el.volume = MaxVolume
     \/ last.req[1] < 0 /\ el.volume = 0

C25_StreamChangeClearsTimers ==
  [][(mounted /\ mounted' /\ streamUrl' # streamUrl)
        => /\ attachActive => torn'
           /\ timer' = NoTimer]_vars

\* C26: once the duration is known, the tracked currentTime lies in
\* [0, duration].
C26_TimeWithinDuration ==
  (Rendered /\ duration > 0) => currentTime \in 0..duration

\* C27: isDragging is not left true by an interaction that has ended: after
\* the scrubber's value was changed from the keyboard, with no pointer drag
\* to release, isDragging is false.
C27_NoDragWithoutPointer ==
  (Rendered /\ last.op = "scrubKey") => ~isDragging

\* C28: once every volumechange has been handled, the tracked volume equals
\* the element's; only a volume command changes the element's volume, so the
\* copy-back effect never replaces a commanded value; and handling a
\* volumechange queues no further one, so the loop ends.
C28_VolumeConverges ==
  /\ []((Rendered /\ evq = <<>>) => volume = el.volume)
  /\ [][last'.op \notin {"slideVolume", "ArrowUp", "ArrowDown"}
          => el'.volume = el.volume]_vars
  /\ [][last'.op = "volumechange" => Len(evq') < Len(evq)]_vars

\* C28 witness: a volume command was given and the last volumechange has been
\* handled: the tracked volume and the element agree on a value other than
\* the initial one.
C28_Witness ==
  /\ Rendered /\ last.op = "volumechange" /\ evq = <<>>
  /\ volume = el.volume /\ volume # InitVolume

\* C30: the selected profile, when there is one, is a profile of the store;
\* so after the selected profile is deleted, getSelectedProfile returns null.
C30_SelectedIsStored ==
  getSelectedProfile # 0 => getSelectedProfile \in dbProfiles

\* C23: the page mounts the player only after a request was answered with
\* success and a non-empty streamUrl: a mounted player has the page's
\* non-empty streamUrl, which a successful response set, and the page shows
\* no error; after a response with success=false, one that is not ok, or one
\* without a streamUrl, no player is mounted.
C23_PlayerOnlyAfterSuccess ==
  /\ [](mounted => /\ streamUrl # NoSource
                   /\ streamUrl = pgStreamUrl
                   /\ pgUrlOf # <<>>
                   /\ pgError = "none"
                   /\ ~pgLoading)
  /\ [](pgError # "none" => ~mounted)
  /\ [][(pgLast'.op = "response" /\ pgLast'.outcome \in {"okNoUrl", "fail", "http"})
          => ~mounted']_vars

\* C23 witness: a player was mounted and a later response without success
\* or without a streamUrl has taken it away.
C23_Witness ==
  /\ pgLast.op = "response" /\ pgLast.outcome \in {"okNoUrl", "fail", "http"}
  /\ last.op = "unmount" /\ ~mounted /\ ~pgLoading

\* C29: once every request is answered, the streamUrl and streamInfo (and,
\* for an episode, the episodeData) the player is shown with are those of
\* the response to the current route's request.
C29_LatestRouteWins ==
  (mounted /\ pgProfile = "loaded" /\ pgInflight = {})
    => /\ pgUrlOf = <<pgRoute>>
       /\ pgInfoOf = <<pgRoute>>
       /\ pgRoute.type = "episode" => pgEpisodeOf = <<pgRoute>>

============================================================================
